---- MODULE Spec2Model ----
(***************************************************************************)
(* A model of autosubs.py: the KodiManager settings reconciler             *)
(* (set_subtrack / set_atrack over the settings table) and the per-file    *)
(* batch pipeline of AutosubsProgram._run.                                 *)
(*                                                                         *)
(* Python values are represented as follows.                               *)
(*   - the settings table is a function from the idFile values that have   *)
(*     a row to the row's columns; "no row" (fetchone() = None) is         *)
(*     "idFile not in the domain";                                         *)
(*   - a fetchone() result is <<>> for None and the tuple otherwise;       *)
(*   - getfid's None is 0 (idFile is an INTEGER PRIMARY KEY, from 1 on,    *)
(*     and the caller tests "not fid", which treats None and 0 alike);     *)
(*   - a track's language None is "" and a title None is <<>> (the code   *)
(*     only tests them for truthiness, equality and containment, where     *)
(*     None and the empty string behave alike); titles are sequences of    *)
(*     one-character strings.                                              *)
(***************************************************************************)
EXTENDS Integers, Sequences, FiniteSets, TLC

VARIABLES
    args,          \* AutosubsProgram.args after parseargs
    files,         \* the list handed to _run
    filecount,     \* number of files of the list already left behind
    pc,            \* position of the program
    conn,          \* the sqlite connection: "none", "open", "closed"
    settings,      \* table settings: idFile -> row
    streamdetails, \* table streamdetails (iStreamType=1): idFile -> languages
    fid,           \* _run's fid for the current file
    film,          \* _run's film (a FileManager) or NoFilm
    track_choice,  \* subtrack_choice / atrack_choice of the current update
    choice,        \* the last answer to "Overwrite (y/n)?"
    calls,         \* set_subtrack / set_atrack invocations, oldest first
    procs,         \* programs run side by side: each one's invocation in progress
    sock,          \* live's websocket: "none", "connected", "closed"
    movies,        \* live's set movies
    pending,       \* live: the movies the for loop has still to ask about
    moviepaths,    \* live's list moviepaths
    announced      \* history: the movie ids of "added" messages read since the
                   \* latest OnScanFinished was taken up

\* what only watch mode uses
livevars == <<sock, movies, pending, moviepaths, announced>>

vars == <<args, files, filecount, pc, conn, settings, streamdetails, fid,
          film, track_choice, choice, calls, procs, livevars>>

\* ---------------------------------------------------------------- bounds

\* stream indices a settings row or a call may hold: -1 .. MaxStream
MaxStream == 1
\* length of the list of files of a batch
MaxFiles == 2

\* ------------------------------------------------------- the store (Kodi)

\* table movie: rows (c22, idFile), in rowid order
movie ==
    << [c22 |-> <<"/", "m", "/", "a", ".", "m", "k", "v">>, idFile |-> 1],
       [c22 |-> <<"/", "m", "/", "b", ".", "m", "k", "v">>, idFile |-> 2] >>

Fids == {movie[k].idFile : k \in DOMAIN movie}

StreamIdx == -1 .. MaxStream

\* the track numbers choose_subtrack and choose_atrack can return
TrackNums == 0 .. MaxStream

Rows == [AudioStream : StreamIdx, SubtitleStream : StreamIdx, SubtitlesOn : {0, 1}]

Tables == UNION {[S -> Rows] : S \in SUBSET Fids}

\* the tables a batch run starts from: each index unset or MaxStream
RunRows == {r \in Rows : r.AudioStream \in {-1, MaxStream}
                         /\ r.SubtitleStream \in {-1, MaxStream}}

RunTables == UNION {[S -> RunRows] : S \in SUBSET Fids}

\* KodiManager.insert_settings_row: a new row with the default settings
insert_settings_row(tbl, rowid) ==
    [f \in DOMAIN tbl \cup {rowid} |->
        IF f = rowid
        THEN [AudioStream |-> -1, SubtitleStream |-> -1, SubtitlesOn |-> 1]
        ELSE tbl[f]]

\* "select SubtitleStream from settings where idFile=fid" ; fetchone()
select_SubtitleStream(tbl, f) ==
    IF f \in DOMAIN tbl THEN <<tbl[f].SubtitleStream>> ELSE <<>>

\* "select AudioStream from settings where idFile=fid" ; fetchone()
select_AudioStream(tbl, f) ==
    IF f \in DOMAIN tbl THEN <<tbl[f].AudioStream>> ELSE <<>>

\* "select SubtitleStream,SubtitlesOn from settings where idFile=fid"
select_SubtitleStream_SubtitlesOn(tbl, f) ==
    IF f \in DOMAIN tbl THEN <<tbl[f].SubtitleStream, tbl[f].SubtitlesOn>> ELSE <<>>

\* "update settings set ... where idFile=fid": no row matches an absent idFile
update_settings(tbl, f, row) ==
    IF f \in DOMAIN tbl THEN [tbl EXCEPT ![f] = row] ELSE tbl

\* set_subtrack without "elif not force: return False": a different track
\* already set is overwritten
set_subtrack_overwrites(tbl, f, tracknum, force) ==
    LET res == select_SubtitleStream(tbl, f) IN
    IF res # <<>> /\ res[1] # -1 /\ res[1] = tracknum
    THEN [tbl |-> update_settings(tbl, f, [tbl[f] EXCEPT !.SubtitlesOn = 1]),
          ret |-> TRUE]
    ELSE LET t1 == IF res = <<>> THEN insert_settings_row(tbl, f) ELSE tbl IN
         [tbl |-> update_settings(t1, f,
                     [t1[f] EXCEPT !.SubtitleStream = tracknum, !.SubtitlesOn = 1]),
          ret |-> TRUE]

\* set_subtrack that returns at once when the track is the one already set,
\* without "update settings set SubtitlesOn=1"
set_subtrack_keeps_off(tbl, f, tracknum, force) ==
    LET res == select_SubtitleStream(tbl, f) IN
    IF res # <<>> /\ res[1] # -1 /\ res[1] = tracknum
    THEN [tbl |-> tbl, ret |-> TRUE]
    ELSE IF res # <<>> /\ res[1] # -1 /\ ~force
    THEN [tbl |-> tbl, ret |-> FALSE]
    ELSE LET t1 == IF res = <<>> THEN insert_settings_row(tbl, f) ELSE tbl IN
         [tbl |-> update_settings(t1, f,
                     [t1[f] EXCEPT !.SubtitleStream = tracknum, !.SubtitlesOn = 1]),
          ret |-> TRUE]

\* KodiManager.set_subtrack: the table afterwards and the value returned
set_subtrack(tbl, f, tracknum, force) ==
    LET res == select_SubtitleStream(tbl, f) IN
    IF res # <<>> /\ res[1] # -1 /\ res[1] = tracknum
    THEN [tbl |-> update_settings(tbl, f, [tbl[f] EXCEPT !.SubtitlesOn = 1]),
          ret |-> TRUE]
    ELSE IF res # <<>> /\ res[1] # -1 /\ ~force
    THEN [tbl |-> tbl, ret |-> FALSE]
    ELSE LET t1 == IF res = <<>> THEN insert_settings_row(tbl, f) ELSE tbl IN
         [tbl |-> update_settings(t1, f,
                     [t1[f] EXCEPT !.SubtitleStream = tracknum, !.SubtitlesOn = 1]),
          ret |-> TRUE]

\* set_atrack that bails out on a different track whatever force is
set_atrack_never_forces(tbl, f, tracknum, force) ==
    LET res == select_AudioStream(tbl, f) IN
    IF res # <<>> /\ res[1] # -1 /\ res[1] = tracknum
    THEN [tbl |-> tbl, ret |-> TRUE]
    ELSE IF res # <<>> /\ res[1] # -1
    THEN [tbl |-> tbl, ret |-> FALSE]
    ELSE LET t1 == IF res = <<>> THEN insert_settings_row(tbl, f) ELSE tbl IN
         [tbl |-> update_settings(t1, f, [t1[f] EXCEPT !.AudioStream = tracknum]),
          ret |-> TRUE]

\* set_atrack without "if res[0] == tracknum: return True"
set_atrack_no_same(tbl, f, tracknum, force) ==
    LET res == select_AudioStream(tbl, f) IN
    IF res # <<>> /\ res[1] # -1 /\ ~force
    THEN [tbl |-> tbl, ret |-> FALSE]
    ELSE LET t1 == IF res = <<>> THEN insert_settings_row(tbl, f) ELSE tbl IN
         [tbl |-> update_settings(t1, f, [t1[f] EXCEPT !.AudioStream = tracknum]),
          ret |-> TRUE]

\* set_atrack whose update also writes SubtitlesOn=1, as set_subtrack's does
set_atrack_switches_subs_on(tbl, f, tracknum, force) ==
    LET res == select_AudioStream(tbl, f) IN
    IF res # <<>> /\ res[1] # -1 /\ res[1] = tracknum
    THEN [tbl |-> tbl, ret |-> TRUE]
    ELSE IF res # <<>> /\ res[1] # -1 /\ ~force
    THEN [tbl |-> tbl, ret |-> FALSE]
    ELSE LET t1 == IF res = <<>> THEN insert_settings_row(tbl, f) ELSE tbl IN
         [tbl |-> update_settings(t1, f, [t1[f] EXCEPT !.AudioStream = tracknum,
                                                       !.SubtitlesOn = 1]),
          ret |-> TRUE]

\* KodiManager.set_atrack: the table afterwards and the value returned
set_atrack(tbl, f, tracknum, force) ==
    LET res == select_AudioStream(tbl, f) IN
    IF res # <<>> /\ res[1] # -1 /\ res[1] = tracknum
    THEN [tbl |-> tbl, ret |-> TRUE]
    ELSE IF res # <<>> /\ res[1] # -1 /\ ~force
    THEN [tbl |-> tbl, ret |-> FALSE]
    ELSE LET t1 == IF res = <<>> THEN insert_settings_row(tbl, f) ELSE tbl IN
         [tbl |-> update_settings(t1, f, [t1[f] EXCEPT !.AudioStream = tracknum]),
          ret |-> TRUE]

\* the record of one invocation: its arguments, the row it read, its result
CallRec(kind, tbl, f, tracknum, force, ret) ==
    [kind |-> kind, fid |-> f, tracknum |-> tracknum, force |-> force,
     res |-> IF kind = "set_subtrack" THEN select_SubtitleStream(tbl, f)
                                      ELSE select_AudioStream(tbl, f),
     ret |-> ret]


\* ------------------------------------------------------------- sequences

\* Python's needle in hay, for sequences of characters
Contains(hay, needle) ==
    \E k \in 0 .. (Len(hay) - Len(needle)) :
        SubSeq(hay, k + 1, k + Len(needle)) = needle

\* Python's hay.endswith(tail), and SQL's hay like "%tail"
EndsWith(hay, tail) ==
    /\ Len(tail) <= Len(hay)
    /\ SubSeq(hay, Len(hay) - Len(tail) + 1, Len(hay)) = tail

\* the part of a path after its last "/": filmpath.split("/")[-1]
RECURSIVE LastSegment(_)
LastSegment(path) ==
    IF path = <<>> THEN <<>>
    ELSE IF path[Len(path)] = "/" THEN <<>>
    ELSE Append(LastSegment(SubSeq(path, 1, Len(path) - 1)), path[Len(path)])

\* str.lower() on the letters that occur in the model's titles
LowerChar(c) ==
    CASE c = "C" -> "c" [] c = "S" -> "s" [] c = "D" -> "d" [] c = "H" -> "h"
      [] c = "E" -> "e" [] OTHER -> c

Lower(str) == [k \in DOMAIN str |-> LowerChar(str[k])]

\* ------------------------------------------------------- KodiManager reads

\* KodiManager.getfid: idFile of the first movie row whose c22 ends with the
\* file name, 0 for None (the names of the model are lower case and hold
\* neither "%" nor "_", so that like is a plain suffix test)
getfid(filmpath) ==
    LET fname == LastSegment(filmpath)
        hits == {k \in DOMAIN movie : EndsWith(movie[k].c22, fname)}
    IN  IF hits = {} THEN 0
        ELSE movie[CHOOSE k \in hits : \A j \in hits : k <= j].idFile

\* get_default_audio_lang reading the first stream whatever AudioStream holds
get_default_audio_lang_first_stream(tbl, details, f) ==
    LET astreams == IF f \in DOMAIN details THEN details[f] ELSE <<>>
    IN  IF Len(astreams) = 0 THEN "None"
        ELSE astreams[1]

\* KodiManager.get_default_audio_lang: "None" for None
get_default_audio_lang(tbl, details, f) ==
    LET row == select_AudioStream(tbl, f)
        audiostream == IF row # <<>> /\ row[1] # -1 THEN row[1] ELSE 0
        astreams == IF f \in DOMAIN details THEN details[f] ELSE <<>>
    IN  IF Len(astreams) = 0 THEN "None"
        ELSE IF audiostream + 1 > Len(astreams) THEN "None"
        ELSE astreams[audiostream + 1]

\* has_subtitle_settings that does not look at SubtitlesOn
has_subtitle_settings_index_only(tbl, f) ==
    LET res == select_SubtitleStream_SubtitlesOn(tbl, f) IN
    res # <<>> /\ res[1] # -1

\* KodiManager.has_subtitle_settings, as a truth value
has_subtitle_settings(tbl, f) ==
    LET res == select_SubtitleStream_SubtitlesOn(tbl, f) IN
    res # <<>> /\ res[1] # -1 /\ res[2] = 1

\* KodiManager.has_audio_settings, as a truth value
has_audio_settings(tbl, f) ==
    LET res == select_AudioStream(tbl, f) IN
    res # <<>> /\ res[1] # -1


\* ------------------------------------------------------------ FileManager

NoTrack == [none |-> TRUE]
NoFilm == [none |-> TRUE]

\* get_default_audiotrack taking the first listed track whatever is marked
get_default_audiotrack_first_listed(audiotracks) ==
    audiotracks[1]

\* FileManager.get_default_audiotrack (audiotracks non-empty; on an empty list
\* the code's self.audiotracks[0] raises IndexError, see RaisesIndexError)
get_default_audiotrack(audiotracks) ==
    LET marked_default == SelectSeq(audiotracks, LAMBDA x : x.default = "Yes") IN
    IF marked_default # <<>> THEN marked_default[1] ELSE audiotracks[1]

\* the IndexError of self.audiotracks[0] in get_default_audiotrack
RaisesIndexError(audiotracks) ==
    /\ SelectSeq(audiotracks, LAMBDA x : x.default = "Yes") = <<>>
    /\ audiotracks = <<>>

\* FileManager.get_extra_audiotracks
get_extra_audiotracks(audiotracks, default_audiotrack) ==
    SelectSeq(audiotracks, LAMBDA atrack :
        /\ atrack # default_audiotrack
        /\ ~(atrack.title # <<>>
             /\ Contains(Lower(atrack.title),
                         <<"c", "o", "m", "m", "e", "n", "t", "a", "r", "y">>)))

\* get_preferred_subtrack looking for a default-marked track before a forced one
get_preferred_subtrack_default_first(subtracks, lang_aa) ==
    LET matching == SelectSeq(subtracks, LAMBDA x : x.language = lang_aa)
        clean == SelectSeq(matching,
                           LAMBDA x : ~Contains(x.title, <<"S", "D", "H">>))
        localtracks == IF Len(matching) > 1 /\ clean # <<>> THEN clean ELSE matching
        marked_forced == SelectSeq(localtracks, LAMBDA x : x.forced = "Yes")
        marked_default == SelectSeq(localtracks, LAMBDA x : x.default = "Yes")
    IN  IF matching = <<>> THEN NoTrack
        ELSE IF marked_default # <<>> THEN marked_default[1]
        ELSE IF marked_forced # <<>> THEN marked_forced[1]
        ELSE localtracks[1]

\* get_preferred_subtrack without "attempt removing SDH tracks"
get_preferred_subtrack_keeps_sdh(subtracks, lang_aa) ==
    LET localtracks == SelectSeq(subtracks, LAMBDA x : x.language = lang_aa)
        marked_forced == SelectSeq(localtracks, LAMBDA x : x.forced = "Yes")
        marked_default == SelectSeq(localtracks, LAMBDA x : x.default = "Yes")
    IN  IF localtracks = <<>> THEN NoTrack
        ELSE IF marked_forced # <<>> THEN marked_forced[1]
        ELSE IF marked_default # <<>> THEN marked_default[1]
        ELSE localtracks[1]

\* FileManager.get_preferred_subtrack
get_preferred_subtrack(subtracks, lang_aa) ==
    LET matching == SelectSeq(subtracks, LAMBDA x : x.language = lang_aa)
        clean == SelectSeq(matching,
                           LAMBDA x : ~Contains(x.title, <<"S", "D", "H">>))
        localtracks == IF Len(matching) > 1 /\ clean # <<>> THEN clean ELSE matching
        marked_forced == SelectSeq(localtracks, LAMBDA x : x.forced = "Yes")
        marked_default == SelectSeq(localtracks, LAMBDA x : x.default = "Yes")
    IN  IF matching = <<>> THEN NoTrack
        ELSE IF marked_forced # <<>> THEN marked_forced[1]
        ELSE IF marked_default # <<>> THEN marked_default[1]
        ELSE localtracks[1]

\* FileManager.has_external_subtrack, as a truth value; disk is the set of
\* paths that exist
has_external_subtrack(fpath, disk) ==
    LET longpath == fpath \o <<".", "s", "r", "t">>
        shortpath == SubSeq(fpath, 1, Len(fpath) - 3) \o <<"s", "r", "t">>
    IN  longpath \in disk \/ shortpath \in disk

\* FileManager.__init__ ; info is what MediaInfo.parse gave
FileManager(fpath, info, disk, defaultlang_aa) ==
    LET default_audiotrack == get_default_audiotrack(info.audiotracks) IN
    [fpath |-> fpath,
     audiotracks |-> info.audiotracks,
     subtracks |-> info.subtracks,
     default_audiotrack |-> default_audiotrack,
     extra_audiotracks |-> get_extra_audiotracks(info.audiotracks, default_audiotrack),
     preferred_subtrack |-> get_preferred_subtrack(info.subtracks, defaultlang_aa),
     external_subtrack |-> has_external_subtrack(fpath, disk)]

\* ------------------------------------------------------------ user input

Digits == {"0", "1", "2", "3", "4", "5", "6", "7", "8", "9"}

DigitVal(c) ==
    CASE c = "0" -> 0 [] c = "1" -> 1 [] c = "2" -> 2 [] c = "3" -> 3
      [] c = "4" -> 4 [] c = "5" -> 5 [] c = "6" -> 6 [] c = "7" -> 7
      [] c = "8" -> 8 [] c = "9" -> 9

\* str.isdecimal()
isdecimal(inp) == inp # <<>> /\ \A k \in DOMAIN inp : inp[k] \in Digits

\* int(inp) for a decimal inp
RECURSIVE int(_)
int(inp) ==
    IF inp = <<>> THEN 0
    ELSE 10 * int(SubSeq(inp, 1, Len(inp) - 1)) + DigitVal(inp[Len(inp)])


\* -------------------------------------------------------- AutosubsProgram

English == [name |-> "English", alpha_2 |-> "en", alpha_3 |-> "eng"]

\* what argparse hands over: "scan" with any flags, or "watch" (whose parser
\* has none of the four flags)
RawArgs ==
    [command : {"scan"}, quiet : BOOLEAN, updateonly : BOOLEAN,
     fastmode : BOOLEAN, audio : BOOLEAN, language : {English}]
    \cup
    [command : {"watch"}, quiet : {FALSE}, updateonly : {FALSE},
     fastmode : {FALSE}, audio : {FALSE}, language : {English}]

\* parseargs without "if self.args.command == 'watch': self.args.quiet = True"
parseargs_watch_not_quiet(raw) ==
    IF raw.quiet
    THEN [raw EXCEPT !.updateonly = TRUE, !.fastmode = TRUE, !.audio = FALSE]
    ELSE raw

\* AutosubsProgram.parseargs, after parser.parse_args()
parseargs(raw) ==
    LET a1 == IF raw.command = "watch" THEN [raw EXCEPT !.quiet = TRUE] ELSE raw IN
    IF a1.quiet
    THEN [a1 EXCEPT !.updateonly = TRUE, !.fastmode = TRUE, !.audio = FALSE]
    ELSE a1

\* AutosubsProgram.choose_subtrack: <<>> for None; inp is the line read
\* (the empty line when nothing is asked)
choose_subtrack(film_, inp) ==
    IF film_.default_audiotrack.language # "" /\ inp = <<>>
    THEN <<film_.preferred_subtrack.stream_identifier>>
    ELSE IF isdecimal(inp) /\ int(inp) >= 0 /\ int(inp) < Len(film_.subtracks)
    THEN <<int(inp)>>
    ELSE <<>>

\* AutosubsProgram.choose_atrack: <<>> for None
choose_atrack(film_, inp) ==
    IF isdecimal(inp) /\ int(inp) >= 0 /\ int(inp) < Len(film_.audiotracks)
    THEN <<int(inp)>>
    ELSE <<>>

\* add_external_subtrack without "film.preferred_subtrack = ext_subtrack"
add_external_subtrack_keeps_preferred(film_, a) ==
    IF film_.external_subtrack
    THEN LET ext_subtrack ==
                [title |-> <<"E", "X", "T", "E", "R", "N", "A", "L">>,
                 forced |-> "No",
                 language |-> a.language.alpha_2,
                 default |-> "No",
                 stream_identifier |-> Len(film_.audiotracks),
                 codec_id |-> "srt"]
         IN  [film_ EXCEPT !.subtracks = Append(@, ext_subtrack)]
    ELSE film_

\* update_subtitles, its first part: the placeholder of an external srt
add_external_subtrack(film_, a) ==
    IF film_.external_subtrack
    THEN LET ext_subtrack ==
                [title |-> <<"E", "X", "T", "E", "R", "N", "A", "L">>,
                 forced |-> "No",
                 language |-> a.language.alpha_2,
                 default |-> "No",
                 stream_identifier |-> Len(film_.audiotracks),
                 codec_id |-> "srt"]
         IN  [film_ EXCEPT !.subtracks = Append(@, ext_subtrack),
                           !.preferred_subtrack = ext_subtrack]
    ELSE film_

\* audio_differs without the comparison of the audio language
audio_differs_any_language(film_, a) ==
    film_.subtracks # <<>>

\* update_subtitles: the condition under which a subtitle is to be set
audio_differs(film_, a) ==
    /\ film_.subtracks # <<>>
    /\ film_.default_audiotrack.language # a.language.alpha_2

\* _run: can_update_subtitles
can_update_subtitles(a, tbl, details, f) ==
    /\ ~(a.fastmode /\ get_default_audio_lang(tbl, details, f) = a.language.alpha_3)
    /\ ~(a.updateonly /\ has_subtitle_settings(tbl, f))

\* _run: can_update_audio. The code tests self.db.has_audio_settings, the
\* bound method itself, which is always true: it is never called.
can_update_audio(a, tbl, f) ==
    IF a.updateonly /\ TRUE THEN FALSE ELSE a.audio


\* ------------------------------------------------------------ environment

ATrack(id, lang, title, def) ==
    [stream_identifier |-> id, language |-> lang, title |-> title, default |-> def]

STrack(id, lang, title, forced, def) ==
    [stream_identifier |-> id, language |-> lang, title |-> title,
     forced |-> forced, default |-> def, codec_id |-> "S_TEXT/UTF8"]

Commentary == <<"C", "o", "m", "m", "e", "n", "t", "a", "r", "y">>

\* what MediaInfo.parse may report for a file: its Audio and its Text tracks
MediaInfos ==
    { \* no audio track at all
      [audiotracks |-> <<>>,
       subtracks |-> <<STrack(0, "en", <<>>, "No", "No")>>],
      \* foreign audio, a forced and a default subtitle in the language
      [audiotracks |-> <<ATrack(0, "fr", <<>>, "Yes")>>,
       subtracks |-> <<STrack(0, "en", <<>>, "Yes", "No"),
                       STrack(1, "en", <<>>, "No", "Yes")>>],
      \* the default audio track is the second one; no subtitle in the language
      [audiotracks |-> <<ATrack(0, "en", <<>>, "No"), ATrack(1, "fr", <<>>, "Yes")>>,
       subtracks |-> <<STrack(0, "fr", <<>>, "No", "No")>>],
      \* audio of unknown language
      [audiotracks |-> <<ATrack(0, "", <<>>, "No")>>,
       subtracks |-> <<STrack(0, "en", <<"S", "D", "H">>, "No", "No"),
                       STrack(1, "en", <<>>, "No", "No")>>],
      \* audio in the language, with a commentary
      [audiotracks |-> <<ATrack(0, "en", <<>>, "Yes"),
                         ATrack(1, "en", Commentary, "No")>>,
       subtracks |-> <<STrack(0, "en", <<>>, "No", "No")>>] }

\* which sidecar files exist beside fpath
Disks(fpath) ==
    { {},
      {fpath \o <<".", "s", "r", "t">>},
      {SubSeq(fpath, 1, Len(fpath) - 3) \o <<"s", "r", "t">>} }

\* lines a user may type at a track prompt, and at "Overwrite (y/n)?"
PromptLines == {<<>>, <<"n">>, <<"0">>, <<"1">>}
OverwriteLines == {<<"y">>, <<"n">>, <<>>}

\* choose_subtrack asking whatever the mode
prompt_lines_always(a) ==
    PromptLines

\* choose_subtrack: the values of inp, "" unless input() is called
prompt_lines(a) ==
    IF ~a.quiet THEN PromptLines ELSE {<<>>}

Mkv(dir, name) == <<"/", dir, "/", name, ".", "m", "k", "v">>

\* files named on the command line: one known to Kodi under another
\* directory, one known under its own path, one unknown
Paths == {Mkv("x", "a"), Mkv("m", "b"), Mkv("m", "c")}

FileLists == UNION {[1 .. n -> Paths] : n \in 1 .. MaxFiles}

\* table streamdetails, strAudioLanguage of the audio streams per idFile
StreamTables ==
    { [f \in Fids |-> IF f = 1 THEN <<"eng", "fre">> ELSE <<>>],
      [f \in Fids |-> IF f = 1 THEN <<"fre">> ELSE <<"eng">>] }

\* ----------------------------------------------------------------- _run

\* one program only, and no websocket (scan mode)
NoProcs == procs = <<>>

NoLive ==
    /\ sock = "none"
    /\ movies = {}
    /\ pending = {}
    /\ moviepaths = <<>>
    /\ announced = {}


Init ==
    /\ NoProcs
    /\ NoLive
    /\ args \in {parseargs(raw) : raw \in RawArgs}
    /\ files \in FileLists
    /\ filecount = 0
    /\ pc = "run"
    /\ conn = "none"
    /\ settings \in RunTables
    /\ streamdetails \in StreamTables
    /\ fid = 0
    /\ film = NoFilm
    /\ track_choice = <<>>
    /\ choice = <<>>
    /\ calls = <<>>

fpath == files[filecount + 1]

\* _run: self.db = KodiManager(self.args.database)
RunBegin ==
    /\ UNCHANGED <<procs, livevars>>
    /\ pc = "run"
    /\ conn' = "open"
    /\ pc' = "loop"
    /\ UNCHANGED <<args, files, filecount, settings, streamdetails, fid, film,
                   track_choice, choice, calls>>

\* _run without "if not fid: ... continue"
skip_file_never(f) == FALSE

\* _run: "if not fid"
skip_file(f) == f = 0

\* an overwrite on every answer but "n" (the test turned into choice == "n")
confirmed_unless_no(line) == line # <<"n">>

\* update_subtitles / update_audio: the answer that allows the overwrite
\* (the code skips on choice != "y")
confirmed(line) == line = <<"y">>

\* the FileManager whose __init__ raised IndexError: the attributes set so far
half_built(path, info) ==
    [fpath |-> path, audiotracks |-> info.audiotracks, subtracks |-> info.subtracks]

\* _run: the head of the loop body, up to "then perform the update"
NextFile ==
    /\ UNCHANGED <<procs, livevars>>
    /\ pc = "loop"
    /\ filecount < Len(files)
    /\ fid' = getfid(fpath)
    /\ film' = NoFilm
    /\ track_choice' = <<>>
    /\ choice' = <<>>
    /\ calls' = <<>>
    /\ IF skip_file(fid')
       THEN /\ filecount' = filecount + 1
            /\ pc' = "loop"
       ELSE /\ filecount' = filecount
            /\ pc' = IF can_update_subtitles(args, settings, streamdetails, fid')
                     THEN "update_subtitles" ELSE "audio"
    /\ UNCHANGED <<args, files, conn, settings, streamdetails>>

\* _run: film = FileManager(...) ; update_subtitles up to choose_subtrack
UpdateSubtitles ==
    /\ UNCHANGED <<procs, livevars>>
    /\ pc = "update_subtitles"
    /\ \E info \in MediaInfos, disk \in Disks(fpath) :
          IF RaisesIndexError(info.audiotracks)
          THEN /\ pc' = "crashed"
               /\ film' = half_built(fpath, info)
          ELSE /\ film' = add_external_subtrack(
                              FileManager(fpath, info, disk, args.language.alpha_2), args)
               /\ pc' = IF audio_differs(film', args) /\ film'.preferred_subtrack # NoTrack
                        THEN "choose_subtrack" ELSE "audio"
    /\ UNCHANGED <<args, files, filecount, conn, settings, streamdetails, fid,
                   track_choice, choice, calls>>

\* update_subtitles: choose_subtrack and the first set_subtrack
ChooseSubtrack ==
    /\ UNCHANGED <<procs, livevars>>
    /\ pc = "choose_subtrack"
    /\ \E inp \in prompt_lines(args) :
          /\ track_choice' = choose_subtrack(film, inp)
          /\ IF track_choice' = <<>>
             THEN /\ pc' = "audio"
                  /\ UNCHANGED <<settings, calls>>
             ELSE LET r == set_subtrack(settings, fid, track_choice'[1], FALSE) IN
                  /\ settings' = r.tbl
                  /\ calls' = Append(calls, CallRec("set_subtrack", settings, fid,
                                                    track_choice'[1], FALSE, r.ret))
                  /\ pc' = IF ~r.ret /\ ~args.quiet THEN "overwrite_subtrack" ELSE "audio"
    /\ UNCHANGED <<args, files, filecount, conn, streamdetails, fid, film, choice>>

\* update_subtitles: "Overwrite (y/n)?" and the forced set_subtrack
OverwriteSubtrack ==
    /\ UNCHANGED <<procs, livevars>>
    /\ pc = "overwrite_subtrack"
    /\ \E line \in OverwriteLines :
          /\ choice' = <<line>>
          /\ IF ~confirmed(line)
             THEN UNCHANGED <<settings, calls>>
             ELSE LET r == set_subtrack(settings, fid, track_choice[1], TRUE) IN
                  /\ settings' = r.tbl
                  /\ calls' = Append(calls, CallRec("set_subtrack", settings, fid,
                                                    track_choice[1], TRUE, r.ret))
    /\ pc' = "audio"
    /\ UNCHANGED <<args, files, filecount, conn, streamdetails, fid, film, track_choice>>

\* _run: "check whether flags allow updating audio track for this file"
AudioGate ==
    /\ UNCHANGED <<procs, livevars>>
    /\ pc = "audio"
    /\ IF can_update_audio(args, settings, fid)
       THEN /\ pc' = "update_audio"
            /\ filecount' = filecount
       ELSE /\ pc' = "loop"
            /\ filecount' = filecount + 1
    /\ track_choice' = <<>>
    /\ choice' = <<>>
    /\ UNCHANGED <<args, files, conn, settings, streamdetails, fid, film, calls>>

\* _run: FileManager(...) if film is not built yet ; update_audio up to
\* choose_atrack
UpdateAudio ==
    /\ UNCHANGED <<procs, livevars>>
    /\ pc = "update_audio"
    /\ \E info \in (IF film = NoFilm THEN MediaInfos ELSE {film}),
          disk \in (IF film = NoFilm THEN Disks(fpath) ELSE {{}}) :
          IF film = NoFilm /\ RaisesIndexError(info.audiotracks)
          THEN /\ pc' = "crashed"
               /\ film' = half_built(fpath, info)
               /\ filecount' = filecount
          ELSE /\ film' = IF film = NoFilm
                          THEN FileManager(fpath, info, disk, args.language.alpha_2)
                          ELSE film
               /\ IF film'.extra_audiotracks # <<>>
                  THEN /\ pc' = "choose_atrack"
                       /\ filecount' = filecount
                  ELSE /\ pc' = "loop"
                       /\ filecount' = filecount + 1
    /\ UNCHANGED <<args, files, conn, settings, streamdetails, fid, track_choice,
                   choice, calls>>

\* update_audio: choose_atrack and the first set_atrack
ChooseAtrack ==
    /\ UNCHANGED <<procs, livevars>>
    /\ pc = "choose_atrack"
    /\ \E inp \in PromptLines :
          /\ track_choice' = choose_atrack(film, inp)
          /\ IF track_choice' = <<>>
             THEN /\ pc' = "loop"
                  /\ filecount' = filecount + 1
                  /\ UNCHANGED <<settings, calls>>
             ELSE LET r == set_atrack(settings, fid, track_choice'[1], FALSE) IN
                  /\ settings' = r.tbl
                  /\ calls' = Append(calls, CallRec("set_atrack", settings, fid,
                                                    track_choice'[1], FALSE, r.ret))
                  /\ pc' = IF ~r.ret THEN "overwrite_atrack" ELSE "loop"
                  /\ filecount' = IF ~r.ret THEN filecount ELSE filecount + 1
    /\ UNCHANGED <<args, files, conn, streamdetails, fid, film, choice>>

\* update_audio: "Overwrite (y/n)?" and the forced set_atrack
OverwriteAtrack ==
    /\ UNCHANGED <<procs, livevars>>
    /\ pc = "overwrite_atrack"
    /\ \E line \in OverwriteLines :
          /\ choice' = <<line>>
          /\ IF ~confirmed(line)
             THEN UNCHANGED <<settings, calls>>
             ELSE LET r == set_atrack(settings, fid, track_choice[1], TRUE) IN
                  /\ settings' = r.tbl
                  /\ calls' = Append(calls, CallRec("set_atrack", settings, fid,
                                                    track_choice[1], TRUE, r.ret))
    /\ pc' = "loop"
    /\ filecount' = filecount + 1
    /\ UNCHANGED <<args, files, conn, streamdetails, fid, film, track_choice>>

\* _run: after the loop, self.db.conn.close()
RunEnd ==
    /\ UNCHANGED <<procs, livevars>>
    /\ pc = "loop"
    /\ filecount = Len(files)
    /\ conn' = "closed"
    /\ pc' = "done"
    /\ UNCHANGED <<args, files, filecount, settings, streamdetails, fid, film,
                   track_choice, choice, calls>>

Next ==
    \/ RunBegin
    \/ NextFile
    \/ UpdateSubtitles
    \/ ChooseSubtrack
    \/ OverwriteSubtrack
    \/ AudioGate
    \/ UpdateAudio
    \/ ChooseAtrack
    \/ OverwriteAtrack
    \/ RunEnd

Spec == Init /\ [][Next]_vars


\* ------------------------------------- the reconciler, called on its own

\* Any table, and any set_subtrack / set_atrack invocation on it; calls
\* holds the latest two invocations.
latest_two(log) == IF Len(log) > 2 THEN Tail(log) ELSE log

InitDB ==
    /\ NoProcs
    /\ NoLive
    /\ args = parseargs([command |-> "scan", quiet |-> FALSE, updateonly |-> FALSE,
                         fastmode |-> FALSE, audio |-> FALSE, language |-> English])
    /\ files = <<>>
    /\ filecount = 0
    /\ pc = "api"
    /\ conn = "open"
    /\ settings \in Tables
    /\ streamdetails = [f \in Fids |-> <<>>]
    /\ fid = 0
    /\ film = NoFilm
    /\ track_choice = <<>>
    /\ choice = <<>>
    /\ calls = <<>>

CallSetSubtrack ==
    /\ UNCHANGED <<procs, livevars>>
    /\ pc = "api"
    /\ \E f \in Fids, tracknum \in TrackNums, force \in BOOLEAN :
          LET r == set_subtrack(settings, f, tracknum, force) IN
          /\ settings' = r.tbl
          /\ calls' = latest_two(Append(calls,
                         CallRec("set_subtrack", settings, f, tracknum, force, r.ret)))
    /\ UNCHANGED <<args, files, filecount, pc, conn, streamdetails, fid, film,
                   track_choice, choice>>

CallSetAtrack ==
    /\ UNCHANGED <<procs, livevars>>
    /\ pc = "api"
    /\ \E f \in Fids, tracknum \in TrackNums, force \in BOOLEAN :
          LET r == set_atrack(settings, f, tracknum, force) IN
          /\ settings' = r.tbl
          /\ calls' = latest_two(Append(calls,
                         CallRec("set_atrack", settings, f, tracknum, force, r.ret)))
    /\ UNCHANGED <<args, files, filecount, pc, conn, streamdetails, fid, film,
                   track_choice, choice>>

NextDB ==
    \/ CallSetSubtrack
    \/ CallSetAtrack

SpecDB == InitDB /\ [][NextDB]_vars


\* ============================================================ properties

\* the stream index a row holds for the kind an invocation reconciles
KindIdx(row, kind) ==
    IF kind = "set_subtrack" THEN row.SubtitleStream ELSE row.AudioStream

\* the latest invocation
LastCall == calls[Len(calls)]

\* the invocation found a row whose index is set and is another track
FoundOther(c) == c.res # <<>> /\ c.res[1] # -1 /\ c.res[1] # c.tracknum

\* C1: for either kind, when the stored index is some v other than -1 and
\* other than the requested track and force is false, the invocation returns
\* False (Conflict) and the whole settings table is as it was.
C1_ConflictLeavesRecord ==
    [][calls' # <<>> =>
         LET c == calls'[Len(calls')] IN
         (/\ c.fid \in DOMAIN settings
          /\ KindIdx(settings[c.fid], c.kind) \notin {-1, c.tracknum}
          /\ ~c.force)
         => (c.ret = FALSE /\ settings' = settings)]_vars

\* an unforced set_atrack has just met another audio track and returned False
C1_Witness ==
    /\ calls # <<>>
    /\ LastCall.kind = "set_atrack"
    /\ ~LastCall.force
    /\ FoundOther(LastCall)
    /\ LastCall.ret = FALSE
    /\ settings[LastCall.fid].AudioStream = LastCall.res[1]

\* C4: for either kind, when the stored index is some v other than -1 and
\* other than the requested track and force is true, the invocation returns
\* True (Applied) and the stored index of that kind becomes the requested
\* track; for set_subtrack SubtitlesOn becomes 1.
C4_ForceOverwrites ==
    [][calls' # <<>> =>
         LET c == calls'[Len(calls')] IN
         (/\ c.fid \in DOMAIN settings
          /\ KindIdx(settings[c.fid], c.kind) \notin {-1, c.tracknum}
          /\ c.force)
         => (/\ c.ret = TRUE
             /\ c.fid \in DOMAIN settings'
             /\ KindIdx(settings'[c.fid], c.kind) = c.tracknum
             /\ (c.kind = "set_subtrack" => settings'[c.fid].SubtitlesOn = 1))]_vars

\* a forced set_subtrack has just replaced another subtitle track
C4_Witness ==
    /\ calls # <<>>
    /\ LastCall.kind = "set_subtrack"
    /\ LastCall.force
    /\ FoundOther(LastCall)
    /\ LastCall.ret = TRUE
    /\ settings[LastCall.fid].SubtitleStream = LastCall.tracknum

\* C5: from no row, from a row whose index is -1 and from a row whose index
\* is already the requested track, an invocation (forced or not) returns
\* True and afterwards the row exists with the requested track as its index;
\* for set_subtrack SubtitlesOn is 1 afterwards, whatever it was.
C5_UnsetLikeAbsent ==
    [][calls' # <<>> =>
         LET c == calls'[Len(calls')] IN
         (\/ c.fid \notin DOMAIN settings
          \/ KindIdx(settings[c.fid], c.kind) \in {-1, c.tracknum})
         => (/\ c.ret = TRUE
             /\ c.fid \in DOMAIN settings'
             /\ KindIdx(settings'[c.fid], c.kind) = c.tracknum
             /\ (c.kind = "set_subtrack" => settings'[c.fid].SubtitlesOn = 1))]_vars

\* a set_subtrack has just found a row with index -1 and set a track on it
C5_Witness ==
    /\ calls # <<>>
    /\ LastCall.kind = "set_subtrack"
    /\ LastCall.res = <<-1>>
    /\ LastCall.tracknum # -1
    /\ LastCall.ret = TRUE
    /\ settings[LastCall.fid].SubtitleStream = LastCall.tracknum
    /\ settings[LastCall.fid].SubtitlesOn = 1

\* two invocations in a row of the same kind, on the same file, with the
\* same track, both unforced, the first of which found no row
SameTwice(log) ==
    /\ Len(log) = 2
    /\ log[1].res = <<>>
    /\ log[2].kind = log[1].kind
    /\ log[2].fid = log[1].fid
    /\ log[2].tracknum = log[1].tracknum
    /\ ~log[1].force
    /\ ~log[2].force

\* C6: idempotence. An unforced invocation on a file without a row, repeated
\* at once with the same track, returns True both times; the stored index is
\* that track after the first and after the second, and the second leaves
\* the table as the first left it.
C6_Idempotent ==
    [][SameTwice(calls') =>
         /\ calls'[1].ret = TRUE
         /\ calls'[2].ret = TRUE
         /\ calls'[1].fid \in DOMAIN settings
         /\ KindIdx(settings[calls'[1].fid], calls'[1].kind) = calls'[1].tracknum
         /\ calls'[2].res = <<calls'[1].tracknum>>
         /\ settings' = settings]_vars

\* set_atrack has just been repeated on a row its first invocation created
C6_Witness ==
    /\ SameTwice(calls)
    /\ calls[1].kind = "set_atrack"
    /\ calls[1].tracknum # -1
    /\ calls[2].ret = TRUE
    /\ settings[calls[2].fid].AudioStream = calls[2].tracknum


\* ------------------------------------------------------ the batch run

\* quiet mode, which watch mode implies
Automatic == args.command = "watch" \/ args.quiet

\* C2: in quiet mode (watch mode included) no step of a run changes a stream
\* index that is set: every row stays, its AudioStream is never written
\* (a row the run creates has AudioStream -1), a SubtitleStream other than
\* -1 keeps its value, no invocation is forced and none is a set_atrack.
C2_QuietKeepsChoices ==
    [][Automatic =>
         /\ \A f \in DOMAIN settings :
               /\ f \in DOMAIN settings'
               /\ settings'[f].AudioStream = settings[f].AudioStream
               /\ (settings[f].SubtitleStream # -1
                   => settings'[f].SubtitleStream = settings[f].SubtitleStream)
         /\ \A f \in DOMAIN settings' \ DOMAIN settings :
               settings'[f].AudioStream = -1
         /\ \A k \in DOMAIN calls' :
               ~calls'[k].force /\ calls'[k].kind = "set_subtrack"]_vars

\* in watch mode a set_subtrack has met another subtitle track and the
\* run has gone on without asking
C2_Witness ==
    /\ args.command = "watch"
    /\ pc = "audio"
    /\ calls # <<>>
    /\ FoundOther(LastCall)
    /\ LastCall.ret = FALSE
    /\ settings[fid].SubtitleStream = LastCall.res[1]

\* C3: in interactive mode a forced invocation is made only right after an
\* unforced invocation of the same kind, for the same file and track,
\* returned False while this file was being processed, and on the answer
\* "y"; on any other answer the table is left as it is.
C3_ForceOnlyAfterYes ==
    [][~args.quiet =>
         /\ (calls' # calls /\ calls' # <<>> /\ calls'[Len(calls')].force)
            => /\ Len(calls') >= 2
               /\ calls = SubSeq(calls', 1, Len(calls') - 1)
               /\ LET c == calls'[Len(calls')]
                      b == calls'[Len(calls') - 1]
                  IN  /\ b.kind = c.kind
                      /\ b.fid = c.fid
                      /\ b.tracknum = c.tracknum
                      /\ ~b.force
                      /\ b.ret = FALSE
                      /\ c.fid = fid
                      /\ fid = getfid(fpath)
               /\ choice' = << <<"y">> >>
         /\ (pc \in {"overwrite_subtrack", "overwrite_atrack"}
             /\ choice' # << <<"y">> >>)
            => settings' = settings]_vars

\* a forced set_atrack has followed a refused one on the answer "y"
C3_Witness ==
    /\ ~args.quiet
    /\ Len(calls) >= 2
    /\ LastCall.kind = "set_atrack"
    /\ LastCall.force
    /\ ~calls[Len(calls) - 1].force
    /\ calls[Len(calls) - 1].ret = FALSE
    /\ choice = << <<"y">> >>
    /\ settings[fid].AudioStream = LastCall.tracknum

\* the movie table has a row for the file's name
InStore(path) ==
    \E k \in DOMAIN movie : EndsWith(movie[k].c22, LastSegment(path))

\* C7: a file that is not found in the store is passed over: the step that
\* looks it up writes no settings row, invokes nothing, leaves the
\* connection as it is and is back at the head of the loop with the next
\* file.
C7_UnknownFileSkipped ==
    [][(pc = "loop" /\ filecount < Len(files) /\ ~InStore(files[filecount + 1]))
         => /\ settings' = settings
            /\ calls' = <<>>
            /\ conn' = conn
            /\ pc' = "loop"
            /\ filecount' = filecount + 1]_vars

\* the first file was not in the store and the second is being processed
C7_Witness ==
    /\ Len(files) = 2
    /\ ~InStore(files[1])
    /\ filecount = 1
    /\ pc = "update_subtitles"
    /\ conn = "open"

\* C8: a file whose inspection yields no audio track is skipped and the run
\* goes on (the run is never left with the connection open and files
\* unprocessed).
C8_NoAudioTrackSkipped ==
    (film # NoFilm /\ film.audiotracks = <<>>) => pc # "crashed"

\* C9: the audio update runs exactly when --audio is set and it is not the
\* case that --updateonly is set and the row has an AudioStream other
\* than -1.
C9_CanUpdateAudio ==
    [][pc = "audio" =>
         ((pc' = "update_audio")
          <=> (args.audio /\ ~(args.updateonly /\ has_audio_settings(settings, fid))))]_vars

\* the conditions of C10 under which the subtitle analysis is left out
SubtitlesBlocked(f) ==
    \/ /\ args.fastmode
       /\ get_default_audio_lang(settings, streamdetails, f) = args.language.alpha_3
    \/ /\ args.updateonly
       /\ f \in DOMAIN settings
       /\ settings[f].SubtitleStream # -1
       /\ settings[f].SubtitlesOn = 1

\* C10: for a file of the store the subtitle analysis is left out exactly
\* when (fastmode and the audio language derived from the store is the
\* three-letter code of the language) or (updateonly and the row has a
\* SubtitleStream other than -1 with SubtitlesOn); otherwise it runs.
C10_CanUpdateSubtitles ==
    /\ pc = "update_subtitles" => ~SubtitlesBlocked(fid)
    /\ (pc = "audio" /\ film = NoFilm) => SubtitlesBlocked(fid)

\* fastmode alone has left the analysis out, for a row whose subtitle is
\* not set
C10_Witness ==
    /\ pc = "audio"
    /\ film = NoFilm
    /\ args.fastmode
    /\ ~args.updateonly
    /\ fid \in DOMAIN settings
    /\ settings[fid].SubtitleStream = -1

\* ------------------------------------------------- FileManager on its own

\* the longest track list MediaInfo.parse reports here
MaxTracks == 3

SDH == <<"S", "D", "H">>

\* track lists in container order: stream_identifier counts from 0; l, t, f
\* and d give each track's language, title, forced and default
AudioList(n, l, t, d) == [k \in 1 .. n |-> ATrack(k - 1, l[k], t[k], d[k])]

SubList(n, l, t, f, d) == [k \in 1 .. n |-> STrack(k - 1, l[k], t[k], f[k], d[k])]

Titles == {<<>>, SDH, Commentary}

YesNo == {"Yes", "No"}

\* the files FileManager is built for: one with these Audio tracks and no
\* Text track, one with these Text tracks and one Audio track
SelInfos(n, l, t, f, d) ==
    { [audiotracks |-> AudioList(n, l, t, d), subtracks |-> <<>>],
      [audiotracks |-> <<ATrack(0, "fr", <<>>, "Yes")>>,
       subtracks |-> SubList(n, l, t, f, d)] }

InitSel ==
    /\ NoProcs
    /\ NoLive
    /\ args = parseargs([command |-> "scan", quiet |-> FALSE, updateonly |-> FALSE,
                         fastmode |-> FALSE, audio |-> FALSE, language |-> English])
    /\ files = <<Mkv("m", "b")>>
    /\ filecount = 0
    /\ pc = "inspect"
    /\ conn = "none"
    /\ settings = <<>>
    /\ streamdetails = [f \in Fids |-> <<>>]
    /\ fid = 0
    /\ film = NoFilm
    /\ track_choice = <<>>
    /\ choice = <<>>
    /\ calls = <<>>

\* film = FileManager(fpath, self.args.language.alpha_2)
Inspect ==
    /\ pc = "inspect"
    /\ \E n \in 0 .. MaxTracks :
       \E l \in [1 .. n -> {"en", "fr"}], t \in [1 .. n -> Titles],
          f \in [1 .. n -> YesNo], d \in [1 .. n -> YesNo] :
       \E info \in SelInfos(n, l, t, f, d) :
          IF RaisesIndexError(info.audiotracks)
          THEN /\ pc' = "crashed"
               /\ film' = half_built(fpath, info)
          ELSE /\ pc' = "inspected"
               /\ film' = FileManager(fpath, info, {}, args.language.alpha_2)
    /\ UNCHANGED <<args, files, filecount, conn, settings, streamdetails, fid,
                   track_choice, choice, calls, procs, livevars>>

NextSel == Inspect

SpecSel == InitSel /\ [][NextSel]_vars

\* positions of film.subtracks, as get_preferred_subtrack sees them
Positions == DOMAIN film.subtracks

Matching == {k \in Positions : film.subtracks[k].language = args.language.alpha_2}

HasSDH(k) == Contains(film.subtracks[k].title, SDH)

CleanMatching == {k \in Matching : ~HasSDH(k)}

Pool == IF Cardinality(Matching) > 1 /\ CleanMatching # {} THEN CleanMatching ELSE Matching

First(S) == CHOOSE k \in S : \A j \in S : k <= j

\* forced, else default-marked, else first, among the positions S
ByPriority(S) ==
    LET forced == {k \in S : film.subtracks[k].forced = "Yes"}
        marked == {k \in S : film.subtracks[k].default = "Yes"}
    IN  IF forced # {} THEN First(forced)
        ELSE IF marked # {} THEN First(marked)
        ELSE First(S)

\* C11: get_preferred_subtrack returns none exactly when no subtitle track has
\* the target language; otherwise it returns the first forced track of the
\* language- and SDH-filtered pool, else the pool's first default-marked
\* track, else the pool's first track.
C11_PreferredByPriority ==
    pc = "inspected" =>
        /\ film.preferred_subtrack = NoTrack <=> Matching = {}
        /\ Matching # {} => film.preferred_subtrack = film.subtracks[ByPriority(Pool)]

\* a forced track is returned although a default-marked track of the pool
\* comes before it
C11_Witness ==
    /\ pc = "inspected"
    /\ film.preferred_subtrack # NoTrack
    /\ film.preferred_subtrack.forced = "Yes"
    /\ film.preferred_subtrack.default = "No"
    /\ \E k \in Pool : /\ film.subtracks[k].default = "Yes"
                        /\ film.subtracks[k].forced = "No"
                        /\ k - 1 < film.preferred_subtrack.stream_identifier

\* C12: with more than one track of the target language and at least one of
\* them without "SDH" in its title, no SDH track is returned and the choice is
\* made among the tracks without it; with exactly one matching track, or with
\* "SDH" in every matching title, the choice is made among all matching
\* tracks, so an SDH track is returned.
C12_SDHNarrowing ==
    pc = "inspected" /\ Matching # {} =>
        LET p == film.preferred_subtrack IN
        IF Cardinality(Matching) > 1 /\ CleanMatching # {}
        THEN /\ ~Contains(p.title, SDH)
             /\ p = film.subtracks[ByPriority(CleanMatching)]
        ELSE /\ p = film.subtracks[ByPriority(Matching)]
             /\ CleanMatching = {} => Contains(p.title, SDH)

\* a forced SDH track is passed over for a later track without SDH
C12_Witness ==
    /\ pc = "inspected"
    /\ Cardinality(Matching) > 1
    /\ film.preferred_subtrack # NoTrack
    /\ ~Contains(film.preferred_subtrack.title, SDH)
    /\ \E k \in Matching : /\ HasSDH(k)
                            /\ film.subtracks[k].forced = "Yes"
                            /\ k - 1 < film.preferred_subtrack.stream_identifier

\* C13: for every non-empty audio-track list get_default_audiotrack returns
\* the first track marked default, and the first track of the list when none
\* is marked.
C13_DefaultAudiotrack ==
    pc = "inspected" /\ film.audiotracks # <<>> =>
        LET marked == {k \in DOMAIN film.audiotracks :
                          film.audiotracks[k].default = "Yes"}
        IN  film.default_audiotrack =
                film.audiotracks[IF marked # {} THEN First(marked) ELSE 1]

\* the default-marked track returned is not the first of the list
C13_Witness ==
    /\ pc = "inspected"
    /\ Len(film.audiotracks) > 1
    /\ film.audiotracks[1].default = "No"
    /\ film.default_audiotrack.default = "Yes"
    /\ film.default_audiotrack.stream_identifier > 0

\* ------------------------------------------------- update_subtitles, whole

\* film is a FileManager whose __init__ has returned
Built == film # NoFilm /\ "default_audiotrack" \in DOMAIN film

\* update_subtitles has run on film, and nothing else since
AfterUpdateSubtitles ==
    Built /\ pc \in {"choose_subtrack", "overwrite_subtrack", "audio"}

PreferredIdx == film.preferred_subtrack.stream_identifier

\* C14: while a file is processed no set_subtrack is issued when its default
\* audio track is in the target language; when that language is known and
\* different, a preferred subtitle P exists and the choice made is P's index,
\* an unforced set_subtrack(fid, P's index) has been issued, and if it found
\* no settings row the row now exists with SubtitleStream = P's index and
\* SubtitlesOn = 1, after that one invocation.
C14_EndToEnd ==
    Built =>
        /\ film.default_audiotrack.language = args.language.alpha_2
               => \A k \in DOMAIN calls : calls[k].kind # "set_subtrack"
        /\ ( /\ pc = "audio"
             /\ film.default_audiotrack.language \notin {"", args.language.alpha_2}
             /\ film.preferred_subtrack # NoTrack
             /\ track_choice = <<PreferredIdx>> )
               => /\ calls # <<>>
                  /\ calls[1].kind = "set_subtrack"
                  /\ calls[1].fid = fid
                  /\ calls[1].tracknum = PreferredIdx
                  /\ ~calls[1].force
                  /\ calls[1].res = <<>>
                        => /\ Len(calls) = 1
                           /\ calls[1].ret
                           /\ fid \in DOMAIN settings
                           /\ settings[fid].SubtitleStream = PreferredIdx
                           /\ settings[fid].SubtitlesOn = 1

\* the default was accepted for a file without settings row, and the row
\* made holds the preferred track, switched on
C14_Witness ==
    /\ Built
    /\ pc = "audio"
    /\ film.default_audiotrack.language = "fr"
    /\ film.preferred_subtrack # NoTrack
    /\ track_choice = <<PreferredIdx>>
    /\ Len(calls) = 1
    /\ calls[1].res = <<>>
    /\ settings[fid].SubtitleStream = PreferredIdx
    /\ settings[fid].SubtitlesOn = 1

\* the placeholder update_subtitles makes for an external srt, but for its
\* stream_identifier
IsPlaceholder(t) ==
    /\ t.title = <<"E", "X", "T", "E", "R", "N", "A", "L">>
    /\ t.forced = "No"
    /\ t.default = "No"
    /\ t.codec_id = "srt"
    /\ t.language = args.language.alpha_2

Placeholders == {k \in DOMAIN film.subtracks : IsPlaceholder(film.subtracks[k])}

\* the tracks MediaInfo reported, when a placeholder follows them
Embedded == SubSeq(film.subtracks, 1, Len(film.subtracks) - 1)

\* C15: once update_subtitles has met an external srt, film.preferred_subtrack
\* is the placeholder (forced No, default No, codec srt, the target's
\* two-letter language), which is in film.subtracks exactly once, as its last
\* entry; and a choice made by default is the placeholder's index.
C15_SidecarOverride ==
    AfterUpdateSubtitles /\ film.external_subtrack =>
        /\ IsPlaceholder(film.preferred_subtrack)
        /\ Placeholders = {Len(film.subtracks)}
        /\ film.subtracks[Len(film.subtracks)] = film.preferred_subtrack
        /\ (Automatic /\ track_choice # <<>>) => track_choice = <<PreferredIdx>>

\* the placeholder is preferred where get_preferred_subtrack had found
\* nothing, and is the choice made
C15_Witness ==
    /\ AfterUpdateSubtitles
    /\ film.external_subtrack
    /\ get_preferred_subtrack(Embedded, args.language.alpha_2) = NoTrack
    /\ IsPlaceholder(film.preferred_subtrack)
    /\ track_choice = <<PreferredIdx>>

\* C18: the placeholder's stream_identifier is the number of subtitle tracks
\* the file had before it was appended, whatever the number of audio tracks.
C18_PlaceholderIndex ==
    AfterUpdateSubtitles /\ film.external_subtrack =>
        PreferredIdx = Len(Embedded)

\* choose_subtrack has been called on film
Chosen ==
    /\ Built
    /\ pc = "audio"
    /\ audio_differs(film, args)
    /\ film.preferred_subtrack # NoTrack

\* C20 as stated: in quiet mode choose_subtrack returns the preferred
\* subtitle's index for every file, one whose default audio track has no
\* language included.
C20_QuietAlwaysPreferred ==
    Automatic /\ Chosen => track_choice = <<PreferredIdx>>

\* C20: in quiet mode choose_subtrack reads no input and returns the default
\* option: the preferred subtitle's index when the default audio track has a
\* language, None when it has none.
C20_QuietTakesDefault ==
    Automatic /\ Chosen =>
        track_choice = IF film.default_audiotrack.language # ""
                       THEN <<PreferredIdx>> ELSE <<>>

\* quiet mode has cancelled for a file whose audio language is unknown
C20_Witness ==
    /\ Automatic
    /\ Chosen
    /\ film.default_audiotrack.language = ""
    /\ track_choice = <<>>
    /\ calls = <<>>

\* ------------------------------------------- get_default_audio_lang alone

\* strAudioLanguage of a file's audio streams, in stream order
LangLists == UNION {[1 .. n -> {"eng", "fre"}] : n \in 0 .. MaxStream + 1}

InitLang ==
    /\ NoProcs
    /\ NoLive
    /\ args = parseargs([command |-> "scan", quiet |-> FALSE, updateonly |-> FALSE,
                         fastmode |-> TRUE, audio |-> FALSE, language |-> English])
    /\ files = <<>>
    /\ filecount = 0
    /\ pc = "api"
    /\ conn = "open"
    /\ settings \in Tables
    /\ streamdetails \in [Fids -> LangLists]
    /\ fid = 0
    /\ film = NoFilm
    /\ track_choice = <<>>
    /\ choice = <<>>
    /\ calls = <<>>

\* self.db.get_default_audio_lang(fid); calls holds the latest invocation
CallGetDefaultAudioLang ==
    /\ pc = "api"
    /\ \E f \in Fids :
          /\ fid' = f
          /\ calls' = <<[kind |-> "get_default_audio_lang", fid |-> f,
                         ret |-> get_default_audio_lang(settings, streamdetails, f)]>>
    /\ UNCHANGED <<args, files, filecount, pc, conn, settings, streamdetails,
                   film, track_choice, choice, procs, livevars>>

NextLang == CallGetDefaultAudioLang

SpecLang == InitLang /\ [][NextLang]_vars

\* the stream position the claim names for file f
Position(f) ==
    IF f \notin DOMAIN settings \/ settings[f].AudioStream = -1
    THEN 0 ELSE settings[f].AudioStream

\* C19: get_default_audio_lang looks at position 0 when the file has no
\* settings row or its AudioStream is -1 and at the stored AudioStream
\* otherwise; it returns None when the file has no stored audio language or
\* the position is at or beyond their number, else the language at the
\* position.
C19_DefaultAudioLang ==
    \A k \in DOMAIN calls :
        calls[k].kind = "get_default_audio_lang" =>
            LET langs == streamdetails[calls[k].fid]
                pos == Position(calls[k].fid)
            IN  calls[k].ret = IF langs = <<>> \/ pos >= Len(langs)
                               THEN "None" ELSE langs[pos + 1]

\* the language returned is that of the stored stream, not of the first one
C19_Witness ==
    /\ calls # <<>>
    /\ calls[1].kind = "get_default_audio_lang"
    /\ fid \in DOMAIN settings
    /\ settings[fid].AudioStream = 1
    /\ Len(streamdetails[fid]) = 2
    /\ streamdetails[fid][1] = "fre"
    /\ calls[1].ret = "eng"

\* ------------------------------- two programs on one database, side by side

\* Each program has its own connection. A fetchone() reads the committed
\* table; the statements up to a commit() take effect together. Between a
\* program's select and its writes, and between the commit() of
\* insert_settings_row and the update after it, the other program may run.
\* Kodi's table settings has a unique index on idFile, so the insert of a row
\* that exists by then raises sqlite3.IntegrityError.

Programs == {1, 2}

\* a set_subtrack or set_atrack about to be run
Invocations ==
    [pc : {"select"}, kind : {"set_subtrack", "set_atrack"}, fid : Fids,
     tracknum : TrackNums, force : BOOLEAN, res : {<<>>}, ret : {<<>>}]

InitConc ==
    /\ NoLive
    /\ args = parseargs([command |-> "scan", quiet |-> FALSE, updateonly |-> FALSE,
                         fastmode |-> FALSE, audio |-> TRUE, language |-> English])
    /\ files = <<>>
    /\ filecount = 0
    /\ pc = "api"
    /\ conn = "open"
    /\ settings \in RunTables
    /\ streamdetails = [f \in Fids |-> <<>>]
    /\ fid = 0
    /\ film = NoFilm
    /\ track_choice = <<>>
    /\ choice = <<>>
    /\ calls = <<>>
    /\ procs \in [Programs -> Invocations]

\* set_subtrack / set_atrack: the select, fetchone() and the tests on res
ConcSelect(p) ==
    LET me == procs[p]
        res == IF me.kind = "set_subtrack"
               THEN select_SubtitleStream(settings, me.fid)
               ELSE select_AudioStream(settings, me.fid)
        isset == res # <<>> /\ res[1] # -1
    IN  /\ me.pc = "select"
        /\ procs' = [procs EXCEPT ![p] =
              IF isset /\ res[1] = me.tracknum
              THEN IF me.kind = "set_subtrack"
                   THEN [me EXCEPT !.res = res, !.pc = "switch_on"]
                   ELSE [me EXCEPT !.res = res, !.pc = "done", !.ret = <<TRUE>>]
              ELSE IF isset /\ ~me.force
              THEN [me EXCEPT !.res = res, !.pc = "done", !.ret = <<FALSE>>]
              ELSE [me EXCEPT !.res = res,
                              !.pc = IF res = <<>> THEN "insert" ELSE "update"]]
        /\ UNCHANGED <<args, files, filecount, pc, conn, settings, streamdetails,
                       fid, film, track_choice, choice, calls, livevars>>

\* set_subtrack: "update settings set SubtitlesOn=1", commit, return True
ConcSwitchOn(p) ==
    LET me == procs[p] IN
    /\ me.pc = "switch_on"
    /\ settings' = update_settings(settings, me.fid,
                                   [settings[me.fid] EXCEPT !.SubtitlesOn = 1])
    /\ procs' = [procs EXCEPT ![p] = [me EXCEPT !.pc = "done", !.ret = <<TRUE>>]]
    /\ UNCHANGED <<args, files, filecount, pc, conn, streamdetails,
                   fid, film, track_choice, choice, calls, livevars>>

\* "if not res: self.insert_settings_row(fid)", up to its commit
ConcInsert(p) ==
    LET me == procs[p] IN
    /\ me.pc = "insert"
    /\ IF me.fid \in DOMAIN settings
       THEN /\ procs' = [procs EXCEPT ![p] = [me EXCEPT !.pc = "raised"]]
            /\ UNCHANGED settings
       ELSE /\ settings' = insert_settings_row(settings, me.fid)
            /\ procs' = [procs EXCEPT ![p] = [me EXCEPT !.pc = "update"]]
    /\ UNCHANGED <<args, files, filecount, pc, conn, streamdetails,
                   fid, film, track_choice, choice, calls, livevars>>

\* the update of SubtitleStream or AudioStream, commit, return True
ConcUpdate(p) ==
    LET me == procs[p] IN
    /\ me.pc = "update"
    /\ settings' = update_settings(settings, me.fid,
          IF me.kind = "set_subtrack"
          THEN [settings[me.fid] EXCEPT !.SubtitleStream = me.tracknum,
                                        !.SubtitlesOn = 1]
          ELSE [settings[me.fid] EXCEPT !.AudioStream = me.tracknum])
    /\ procs' = [procs EXCEPT ![p] = [me EXCEPT !.pc = "done", !.ret = <<TRUE>>]]
    /\ UNCHANGED <<args, files, filecount, pc, conn, streamdetails,
                   fid, film, track_choice, choice, calls, livevars>>

NextConc ==
    \E p \in Programs :
        \/ ConcSelect(p)
        \/ ConcSwitchOn(p)
        \/ ConcInsert(p)
        \/ ConcUpdate(p)

SpecConc == InitConc /\ [][NextConc]_vars

\* p and q run unforced invocations of one kind on one record, with
\* different track numbers
Rivals(p, q) ==
    /\ p # q
    /\ procs[p].kind = procs[q].kind
    /\ procs[p].fid = procs[q].fid
    /\ procs[p].tracknum # procs[q].tracknum
    /\ ~procs[p].force
    /\ ~procs[q].force

\* C16: of two unforced invocations of one kind on one record with different
\* track numbers, run side by side, at most one writes the index: they never
\* both return True, the second write replacing the first.
C16_NoLostUpdate ==
    \A p, q \in DOMAIN procs :
        Rivals(p, q) => ~(procs[p].ret = <<TRUE>> /\ procs[q].ret = <<TRUE>>)

\* ------------------------------------------------------------ watch mode

\* the movie ids Kodi announces
MaxMovies == 2

MovieIds == 1 .. MaxMovies

\* a JSON message of Kodi, by the keys live reads: result is <<>> without
\* the key "result", else <<the file of moviedetails>>
Msg(method, added, type, movieid, id, result) ==
    [method |-> method, added |-> added, type |-> type, movieid |-> movieid,
     id |-> id, result |-> result]

Messages ==
    {Msg("VideoLibrary.OnUpdate", a, t, m, "", <<>>) :
        a \in BOOLEAN, t \in {"movie", "episode"}, m \in MovieIds}
    \cup {Msg("VideoLibrary.OnScanFinished", FALSE, "", 0, "", <<>>),
          Msg("Player.OnPlay", FALSE, "", 0, "", <<>>),
          Msg("", FALSE, "", 0, "autosubs-getmoviedetails", <<>>)}
    \cup {Msg("", FALSE, "", 0, "autosubs-getmoviedetails", <<path>>) : path \in Paths}

InitLive ==
    /\ NoProcs
    /\ NoLive
    /\ args = parseargs([command |-> "watch", quiet |-> FALSE, updateonly |-> FALSE,
                         fastmode |-> FALSE, audio |-> FALSE, language |-> English])
    /\ files = <<>>
    /\ filecount = 0
    /\ pc = "live"
    /\ conn = "none"
    /\ settings \in RunTables
    /\ streamdetails \in StreamTables
    /\ fid = 0
    /\ film = NoFilm
    /\ track_choice = <<>>
    /\ choice = <<>>
    /\ calls = <<>>

\* the movie id a message announces as added to the library, if it does
Added(data) ==
    IF data.method = "VideoLibrary.OnUpdate" /\ data.added /\ data.type = "movie"
    THEN {data.movieid} ELSE {}

\* live: sock.connect(self.args.ws); movies = set()
LiveConnect ==
    /\ pc = "live"
    /\ sock' = "connected"
    /\ movies' = {}
    /\ pc' = "listen"
    /\ UNCHANGED <<args, files, filecount, conn, settings, streamdetails, fid, film,
                   track_choice, choice, calls, procs, pending, moviepaths, announced>>

\* the places where _listen_json waits in sock.recv()
Listening == pc \in {"listen", "await_details"}

\* live, after the for loop: "if moviepaths: self._run(moviepaths)", else
\* movies.clear() at once
AfterLoop(paths) ==
    IF paths # <<>>
    THEN /\ pc' = "run"
         /\ files' = paths
         /\ filecount' = 0
         /\ UNCHANGED movies
    ELSE /\ pc' = "listen"
         /\ movies' = {}
         /\ UNCHANGED <<files, filecount>>

\* live: one message read by the outer loop
Listen ==
    /\ pc = "listen"
    /\ \E data \in Messages :
          IF data.method = "VideoLibrary.OnUpdate"
          THEN /\ movies' = IF data.added /\ data.type = "movie"
                            THEN movies \cup {data.movieid} ELSE movies
               /\ announced' = announced \cup Added(data)
               /\ UNCHANGED <<pc, pending, moviepaths, files, filecount>>
          ELSE IF data.method = "VideoLibrary.OnScanFinished"
          THEN /\ moviepaths' = <<>>
               /\ pending' = movies
               /\ announced' = {}
               /\ IF movies # {}
                  THEN /\ pc' = "await_details"
                       /\ UNCHANGED <<movies, files, filecount>>
                  ELSE AfterLoop(<<>>)
          ELSE UNCHANGED <<pc, movies, pending, moviepaths, files, filecount,
                           announced>>
    /\ UNCHANGED <<args, conn, settings, streamdetails, fid, film,
                   track_choice, choice, calls, procs, sock>>

\* live: one message read while the reply to GetMovieDetails is awaited
AwaitDetails ==
    /\ pc = "await_details"
    /\ \E data \in Messages :
          IF data.id # "autosubs-getmoviedetails"
          THEN /\ announced' = announced \cup Added(data)
               /\ UNCHANGED <<pc, movies, pending, moviepaths, files, filecount>>
          ELSE /\ UNCHANGED announced
               /\ moviepaths' = IF data.result # <<>>
                                THEN Append(moviepaths, data.result[1])
                                ELSE moviepaths
               /\ \E movieid \in pending : pending' = pending \ {movieid}
               /\ IF pending' # {}
                  THEN UNCHANGED <<pc, movies, files, filecount>>
                  ELSE AfterLoop(moviepaths')
    /\ UNCHANGED <<args, conn, settings, streamdetails, fid, film,
                   track_choice, choice, calls, procs, sock>>

\* live: _run has returned; movies.clear(). The locals of _run are gone.
AfterRun ==
    /\ pc = "done"
    /\ sock = "connected"
    /\ movies' = {}
    /\ pc' = "listen"
    /\ files' = <<>>
    /\ filecount' = 0
    /\ fid' = 0
    /\ film' = NoFilm
    /\ track_choice' = <<>>
    /\ calls' = <<>>
    /\ UNCHANGED <<args, conn, settings, streamdetails, choice, procs, sock,
                   pending, moviepaths, announced>>

\* the KeyboardInterrupt handler of _listen_json without sock.close()
Interrupt_leaves_socket ==
    /\ Listening
    /\ conn' = IF conn = "open" THEN "closed" ELSE conn
    /\ pc' = "exited"
    /\ UNCHANGED <<args, files, filecount, settings, streamdetails, fid, film,
                   track_choice, choice, calls, procs, livevars>>

\* _listen_json: KeyboardInterrupt in sock.recv(); self.db is set exactly
\* while conn is open
Interrupt ==
    /\ Listening
    /\ sock' = "closed"
    /\ conn' = IF conn = "open" THEN "closed" ELSE conn
    /\ pc' = "exited"
    /\ UNCHANGED <<args, files, filecount, settings, streamdetails, fid, film,
                   track_choice, choice, calls, procs, movies, pending, moviepaths, announced>>

\* _listen_json: KeyboardInterrupt in sock.recv() and another one while the
\* handler runs, after sock.close() and before sys.exit(): the second is not
\* caught, the program ends with the socket closed, the connection closed or
\* not as the handler got to it. (A second one before sock.close() is
\* InterruptRun's case.)
InterruptHandler ==
    /\ Listening
    /\ sock' = "closed"
    /\ conn' \in {conn, IF conn = "open" THEN "closed" ELSE conn}
    /\ pc' = "killed"
    /\ UNCHANGED <<args, files, filecount, settings, streamdetails, fid, film,
                   track_choice, choice, calls, procs, movies, pending, moviepaths, announced>>

\* KeyboardInterrupt at any line of live outside the try of _listen_json
\* (sock.connect, print, sock.send, _run and what it calls): nothing catches
\* it, the program ends with socket and connection as they are. What was
\* committed stays, what was not is lost.
InterruptRun ==
    /\ pc \in {"live", "listen", "await_details", "run", "loop", "update_subtitles",
               "choose_subtrack", "audio", "done"}
    /\ pc' = "killed"
    /\ UNCHANGED <<args, files, filecount, conn, settings, streamdetails, fid, film,
                   track_choice, choice, calls, procs, livevars>>

\* KeyboardInterrupt in set_subtrack after the commit of insert_settings_row
\* and before the commit of its own update: the default row stays, the track
\* is not written
InterruptSetSubtrack ==
    /\ pc = "choose_subtrack"
    /\ \E inp \in prompt_lines(args) :
          /\ track_choice' = choose_subtrack(film, inp)
          /\ track_choice' # <<>>
    /\ select_SubtitleStream(settings, fid) = <<>>
    /\ settings' = insert_settings_row(settings, fid)
    /\ pc' = "killed"
    /\ UNCHANGED <<args, files, filecount, conn, streamdetails, fid, film,
                   choice, calls, procs, livevars>>

\* _listen_json: sock.recv() gave no JSON; the ValueError is not caught
InvalidJSON ==
    /\ Listening
    /\ pc' = "crashed"
    /\ UNCHANGED <<args, files, filecount, conn, settings, streamdetails, fid, film,
                   track_choice, choice, calls, procs, livevars>>

\* watch mode is quiet and without --audio: of _run's steps these can happen
NextLive ==
    \/ LiveConnect
    \/ Listen
    \/ AwaitDetails
    \/ RunBegin
    \/ NextFile
    \/ UpdateSubtitles
    \/ ChooseSubtrack
    \/ AudioGate
    \/ RunEnd
    \/ AfterRun
    \/ Interrupt
    \/ InterruptHandler
    \/ InterruptRun
    \/ InterruptSetSubtrack
    \/ InvalidJSON

SpecLive == InitLive /\ [][NextLive]_vars

\* C17: in watch mode no store connection is open wherever the listener
\* waits for a message, and the program an interrupt has ended in that wait
\* (pc "exited"; "killed" is an interrupt not caught) has closed its socket
\* and has no store connection open; nor is one open whenever the handler
\* has closed the socket.
C17_InterruptClosesAll ==
    /\ Listening => conn # "open"
    /\ pc = "exited" => sock = "closed" /\ conn # "open"
    /\ sock = "closed" => conn # "open"

\* interrupted while the reply to GetMovieDetails was awaited, after an
\* earlier batch had opened and closed the store
C17_Witness ==
    /\ pc = "exited"
    /\ pending # {}
    /\ sock = "closed"
    /\ conn = "closed"

\* ------------------------------------------- audio and subtitle, apart

\* C21: on every row that exists, a set_atrack leaves SubtitleStream and
\* SubtitlesOn as they were and a set_subtrack leaves AudioStream as it was,
\* whatever it returns and whatever force is.
C21_KindsIndependent ==
    [][calls' # <<>> =>
         LET c == calls'[Len(calls')] IN
         \A f \in DOMAIN settings :
            /\ f \in DOMAIN settings'
            /\ c.kind = "set_atrack"
                  => /\ settings'[f].SubtitleStream = settings[f].SubtitleStream
                     /\ settings'[f].SubtitlesOn = settings[f].SubtitlesOn
            /\ c.kind = "set_subtrack"
                  => settings'[f].AudioStream = settings[f].AudioStream]_vars

\* a forced set_atrack has replaced the audio track of a row whose subtitle
\* track is set and switched off, and it still is
C21_Witness ==
    /\ calls # <<>>
    /\ LastCall.kind = "set_atrack"
    /\ LastCall.force
    /\ FoundOther(LastCall)
    /\ LastCall.ret = TRUE
    /\ settings[LastCall.fid].AudioStream = LastCall.tracknum
    /\ settings[LastCall.fid].SubtitleStream # -1
    /\ settings[LastCall.fid].SubtitlesOn = 0

\* C22: in watch mode every movie id read in an "added" message since the
\* latest OnScanFinished was taken up is in movies when the listener is ready
\* for the next OnScanFinished, wherever the message was read; and movies is
\* empty after an OnScanFinished has been handled, until the next "added"
\* message.
C22_NoNotificationLost ==
    pc = "listen" =>
        /\ announced \subseteq movies
        /\ announced = {} => movies = {}

====
